---- MODULE Spec2Model ----
(***************************************************************************)
(* Model of backend/scripts/universal_script_fixer.py: the script          *)
(* classifier (detect_script), the expectation lookup and comparison       *)
(* (check_script_mismatch) and the orchestration (process_transcription),  *)
(* run by one or two invocations over a small file system.                 *)
(*                                                                         *)
(* Characters are Unicode code points.  A JSON document on disk is a       *)
(* record [kind, pairs]: kind says whether the file is absent, malformed,  *)
(* a JSON array, a JSON object or a truncated prefix of an object; pairs   *)
(* is the ordered list of <<key, value>> members.  A Python dict is the    *)
(* same ordered list with unique keys.                                     *)
(***************************************************************************)
EXTENDS Integers, Sequences, FiniteSets, TLC

VARIABLES
    tables,            \* module globals SCRIPT_PATTERNS and LANGUAGE_SCRIPT_MAP
    fs,                \* path -> document on disk
    stderr,            \* the diagnostic stream, a sequence of lines
    pc,                \* per invocation: position in process_transcription
    input_path,        \* per invocation: argument input_path
    output_path,       \* per invocation: argument output_path
    expected_language, \* per invocation: argument expected_language
    wfault,            \* per invocation: does open(output_path, 'w') fail
    data,              \* per invocation: local data
    has_mismatch,      \* per invocation: local has_mismatch
    detected_script,   \* per invocation: local detected_script
    expected_script,   \* per invocation: local expected_script
    exc,               \* per invocation: exception raised inside the try
    status,            \* per invocation: return value (-1 while running)
    call               \* per invocation: what the call started from (history)

vars == <<tables, fs, stderr, pc, input_path, output_path, expected_language,
          wfault, data, has_mismatch, detected_script, expected_script, exc,
          status, call>>

----------------------------------------------------------------------------
(* Bounds *)

MaxLen == 1         \* longest text in an input document of Spec
MaxFnLen == 3      \* longest text handed to the classifier in SpecFn
MaxFields == 2     \* most members in an input document
MaxRuns == 2       \* most successive calls of one invocation chain

----------------------------------------------------------------------------
(* JSON values *)

NoReport == [none |-> TRUE]

JStr(s) == [t |-> "str", s |-> s, n |-> 0, r |-> NoReport]

JNum(n) == [t |-> "num", s |-> <<>>, n |-> n, r |-> NoReport]

JObj(r) == [t |-> "obj", s |-> <<>>, n |-> 0, r |-> r]

----------------------------------------------------------------------------
(* The two tables *)

SCRIPT_PATTERNS ==
    << [name |-> "arabic",     lo |-> 1536, hi |-> 1791],
       [name |-> "devanagari", lo |-> 2304, hi |-> 2431],
       [name |-> "gujarati",   lo |-> 2688, hi |-> 2815],
       [name |-> "bengali",    lo |-> 2432, hi |-> 2559],
       [name |-> "tamil",      lo |-> 2944, hi |-> 3071],
       [name |-> "telugu",     lo |-> 3072, hi |-> 3199],
       [name |-> "kannada",    lo |-> 3200, hi |-> 3327],
       [name |-> "malayalam",  lo |-> 3328, hi |-> 3455] >>

LANGUAGE_SCRIPT_MAP ==
    [c \in {"hi", "ur", "gu", "bn", "ta", "te", "kn", "ml"} |->
        CASE c = "hi" -> "devanagari"
          [] c = "ur" -> "arabic"
          [] c = "gu" -> "gujarati"
          [] c = "bn" -> "bengali"
          [] c = "ta" -> "tamil"
          [] c = "te" -> "telugu"
          [] c = "kn" -> "kannada"
          [] c = "ml" -> "malayalam"]

----------------------------------------------------------------------------
(* dict operations *)

RECURSIVE dict_keys(_)
dict_keys(d) ==
    IF d = <<>> THEN {} ELSE {d[1][1]} \cup dict_keys(Tail(d))

dict_index(d, k) == CHOOSE i \in 1..Len(d) : d[i][1] = k

\* d.get(k, default)
dict_get(d, k, default) ==
    IF k \in dict_keys(d) THEN d[dict_index(d, k)][2] ELSE default

\* d[k] = v : an existing key keeps its position, a new key goes last
dict_set(d, k, v) ==
    IF k \in dict_keys(d)
    THEN [d EXCEPT ![dict_index(d, k)] = <<k, v>>]
    ELSE Append(d, <<k, v>>)

\* dict(pairs), as json.load builds an object: for a repeated key the first
\* occurrence fixes the position and the last one the value
RECURSIVE dict_from_pairs(_, _)
dict_from_pairs(d, pairs) ==
    IF pairs = <<>> THEN d
    ELSE dict_from_pairs(dict_set(d, pairs[1][1], pairs[1][2]), Tail(pairs))

----------------------------------------------------------------------------
(* detect_script *)

\* len(re.findall(pattern, text)) for a one-character class
count_matches(pattern, text) ==
    Cardinality({i \in 1..Len(text) :
                    pattern.lo <= text[i] /\ text[i] <= pattern.hi})

\* the dict detected_scripts after the loop, in insertion order
detected_scripts(patterns, text) ==
    SelectSeq([i \in 1..Len(patterns) |->
                  <<patterns[i].name, count_matches(patterns[i], text)>>],
              LAMBDA e : e[2] > 0)

\* max(d, key=d.get) returning the last of several maximal keys
RECURSIVE max_key_last(_, _)
max_key_last(best, rest) ==
    IF rest = <<>> THEN best[1]
    ELSE max_key_last(IF rest[1][2] >= best[2] THEN rest[1] ELSE best,
                      Tail(rest))

\* max(d, key=d.get): the first key, in iteration order, of maximal value
RECURSIVE max_key(_, _)
max_key(best, rest) ==
    IF rest = <<>> THEN best[1]
    ELSE max_key(IF rest[1][2] > best[2] THEN rest[1] ELSE best, Tail(rest))

detect_script(patterns, text) ==
    LET d == detected_scripts(patterns, text)
    IN  IF d = <<>> THEN "latin" ELSE max_key(d[1], Tail(d))

----------------------------------------------------------------------------
(* check_script_mismatch *)

\* a lookup whose default is not 'latin'
lookup_default_devanagari(map, code) ==
    IF code \in DOMAIN map THEN map[code] ELSE "devanagari"

\* LANGUAGE_SCRIPT_MAP.get(expected_language, 'latin')
lookup_expected(map, code) ==
    IF code \in DOMAIN map THEN map[code] ELSE "latin"

\* returns (mismatch, detected_script)
check_script_mismatch(tbl, text, language) ==
    LET detected == detect_script(tbl.patterns, text)
        expected == lookup_expected(tbl.langmap, language)
    IN  [mismatch |-> detected /= expected, detected |-> detected]

----------------------------------------------------------------------------
(* Documents on disk, json.load and json.dump *)

Absent == [kind |-> "absent", pairs |-> <<>>]

Malformed == [kind |-> "malformed", pairs |-> <<>>]

ArrayDoc == [kind |-> "array", pairs |-> <<>>]

NoData == [kind |-> "none", pairs |-> <<>>]

\* U+D800, a lone surrogate: a JSON escape can put it in a str, and the
\* utf-8 codec of the output file refuses to encode it
Surrogate == 55296

HasSurrogate(v) == v.t = "str" /\ \E i \in 1..Len(v.s) : v.s[i] = Surrogate

\* json.load(f) on a readable, well-formed document
json_load(c) ==
    IF c.kind = "array"
    THEN [kind |-> "list", pairs |-> <<>>]
    ELSE [kind |-> "dict", pairs |-> dict_from_pairs(<<>>, c.pairs)]

\* members of d that json.dump cannot encode into the utf-8 file
unencodable(d) == {i \in 1..Len(d) : HasSurrogate(d[i][2])}

first_unencodable(d) ==
    CHOOSE i \in unencodable(d) : \A j \in unencodable(d) : i <= j

\* what the file holds once the with-block of the dump is left
json_dump(d) ==
    IF unencodable(d) = {}
    THEN [kind |-> "object", pairs |-> d]
    ELSE [kind |-> "truncated",
          pairs |-> SubSeq(d, 1, first_unencodable(d) - 1)]

----------------------------------------------------------------------------
(* process_transcription *)

Procs == {"p1", "p2"}

InFile(p) == <<p, "in.json">>

OutFile(p) == <<p, "out.json">>

Paths == {InFile(p) : p \in Procs} \cup {OutFile(p) : p \in Procs}

\* text read only from records that carry no script_issue yet
get_text_unprocessed(d) ==
    IF "script_issue" \in dict_keys(d)
    THEN JStr(<<>>)
    ELSE dict_get(d, "text", JStr(<<>>))

\* data.get('text', '')
get_text(d) == dict_get(d, "text", JStr(<<>>))

\* a report whose retry flag is never raised
script_issue_no_retry(mismatch, expected, detected) ==
    IF mismatch
    THEN [has_mismatch |-> TRUE,
          expected_script |-> expected,
          detected_script |-> detected,
          needs_retranscription |-> FALSE]
    ELSE [has_mismatch |-> FALSE, detected_script |-> detected]

\* the value stored under data['script_issue']
script_issue(mismatch, expected, detected) ==
    IF mismatch
    THEN [has_mismatch |-> TRUE,
          expected_script |-> expected,
          detected_script |-> detected,
          needs_retranscription |-> TRUE]
    ELSE [has_mismatch |-> FALSE, detected_script |-> detected]

\* the record replaced by the report
attach_issue_replace(d, issue) == << <<"script_issue", JObj(issue)>> >>

\* data['script_issue'] = issue
attach_issue(d, issue) == dict_set(d, "script_issue", JObj(issue))

\* data as one module-level variable that every invocation assigns
store_data_global(dt, p, issue) ==
    [q \in DOMAIN dt |->
        [kind |-> "dict", pairs |-> attach_issue(dt[p].pairs, issue)]]

\* data is a local of the call
store_data(dt, p, issue) ==
    [dt EXCEPT ![p] = [kind |-> "dict",
                       pairs |-> attach_issue(dt[p].pairs, issue)]]

ExceptionClasses ==
    {"FileNotFoundError", "PermissionError", "JSONDecodeError",
     "AttributeError", "TypeError", "UnicodeEncodeError"}

\* a handler for I/O errors only
caught_oserror(e) == e \in {"FileNotFoundError", "PermissionError"}

\* except Exception
caught(e) == e \in ExceptionClasses

Line(p, tag, arg) == [p |-> p, tag |-> tag, arg |-> arg]

Raise(p, e) ==
    /\ pc' = [pc EXCEPT ![p] = "except"]
    /\ exc' = [exc EXCEPT ![p] = e]

\* with open(input_path) as f: data = json.load(f)
ReadInput(p) ==
    /\ pc[p] = "start"
    /\ LET c == fs[input_path[p]]
       IN  IF c.kind = "absent"
           THEN Raise(p, "FileNotFoundError") /\ UNCHANGED data
           ELSE IF c.kind \in {"malformed", "truncated"}
           THEN Raise(p, "JSONDecodeError") /\ UNCHANGED data
           ELSE /\ data' = [data EXCEPT ![p] = json_load(c)]
                /\ pc' = [pc EXCEPT ![p] = "loaded"]
                /\ UNCHANGED exc
    /\ UNCHANGED <<tables, fs, stderr, input_path, output_path,
                   expected_language, wfault, has_mismatch, detected_script,
                   expected_script, status, call>>

\* text = data.get('text', ''); check_script_mismatch(text, expected_language)
Check(p) ==
    /\ pc[p] = "loaded"
    /\ IF data[p].kind /= "dict"
       THEN Raise(p, "AttributeError")
            /\ UNCHANGED <<has_mismatch, detected_script>>
       ELSE LET text == get_text(data[p].pairs)
            IN  IF text.t /= "str"
                THEN Raise(p, "TypeError")
                     /\ UNCHANGED <<has_mismatch, detected_script>>
                ELSE LET m == check_script_mismatch(tables, text.s,
                                                    expected_language[p])
                     IN  /\ has_mismatch' =
                                [has_mismatch EXCEPT ![p] = m.mismatch]
                         /\ detected_script' =
                                [detected_script EXCEPT ![p] = m.detected]
                         /\ pc' = [pc EXCEPT ![p] = "checked"]
                         /\ UNCHANGED exc
    /\ UNCHANGED <<tables, fs, stderr, input_path, output_path,
                   expected_language, wfault, data, expected_script, status,
                   call>>

\* the if/else that prints the status lines and sets data['script_issue']
Emit(p) ==
    /\ pc[p] = "checked"
    /\ IF has_mismatch[p]
       THEN LET expected == lookup_expected(tables.langmap,
                                            expected_language[p])
            IN  /\ expected_script' = [expected_script EXCEPT ![p] = expected]
                /\ stderr' = stderr \o
                      << Line(p, "WARNING: SCRIPT MISMATCH DETECTED!", ""),
                         Line(p, "Expected:", expected),
                         Line(p, "Detected:", detected_script[p]),
                         Line(p, "NEEDS_RETRANSCRIPTION", "") >>
                /\ data' = store_data(data, p,
                              script_issue(TRUE, expected, detected_script[p]))
       ELSE /\ stderr' = Append(stderr,
                                Line(p, "SUCCESS:", detected_script[p]))
            /\ data' = store_data(data, p,
                          script_issue(FALSE, "", detected_script[p]))
            /\ UNCHANGED expected_script
    /\ pc' = [pc EXCEPT ![p] = "emitted"]
    /\ UNCHANGED <<tables, fs, input_path, output_path, expected_language,
                   wfault, has_mismatch, detected_script, exc, status, call>>

\* open(output_path, 'w'): fails, or truncates the file
OpenOutput(p) ==
    /\ pc[p] = "emitted"
    /\ IF wfault[p]
       THEN Raise(p, "PermissionError") /\ UNCHANGED fs
       ELSE /\ fs' = [fs EXCEPT ![output_path[p]] =
                          [kind |-> "truncated", pairs |-> <<>>]]
            /\ pc' = [pc EXCEPT ![p] = "opened"]
            /\ UNCHANGED exc
    /\ UNCHANGED <<tables, stderr, input_path, output_path, expected_language,
                   wfault, data, has_mismatch, detected_script,
                   expected_script, status, call>>

\* json.dump(data, f, ensure_ascii=False, indent=2), close, return 0
Dump(p) ==
    /\ pc[p] = "opened"
    /\ fs' = [fs EXCEPT ![output_path[p]] = json_dump(data[p].pairs)]
    /\ IF unencodable(data[p].pairs) /= {}
       THEN Raise(p, "UnicodeEncodeError") /\ UNCHANGED status
       ELSE /\ status' = [status EXCEPT ![p] = 0]
            /\ pc' = [pc EXCEPT ![p] = "done"]
            /\ UNCHANGED exc
    /\ UNCHANGED <<tables, stderr, input_path, output_path, expected_language,
                   wfault, data, has_mismatch, detected_script,
                   expected_script, call>>

\* except Exception as e: print ERROR, return 1
Handler(p) ==
    /\ pc[p] = "except"
    /\ IF caught(exc[p])
       THEN /\ stderr' = Append(stderr, Line(p, "ERROR:", exc[p]))
            /\ status' = [status EXCEPT ![p] = 1]
            /\ pc' = [pc EXCEPT ![p] = "done"]
       ELSE /\ pc' = [pc EXCEPT ![p] = "propagated"]
            /\ UNCHANGED <<stderr, status>>
    /\ UNCHANGED <<tables, fs, input_path, output_path, expected_language,
                   wfault, data, has_mismatch, detected_script,
                   expected_script, exc, call>>

----------------------------------------------------------------------------
(* Inputs *)

\* one character of Latin, one of Devanagari, and the lone surrogate
RunChars == {97, 2344, Surrogate}

\* 'a' and one character of each registered script
FnChars == {97, 1575, 2344, 2709, 2453, 2965, 3093, 3221, 3349}

Strings(chars, n) == UNION {[1..k -> chars] : k \in 0..n}

RunLangs == {"hi", "ur", "en"}

FnLangs == {"hi", "ur", "gu", "bn", "ta", "te", "kn", "ml", "en", "HI", ""}

\* a script_issue left in the input by an earlier tool
StaleIssue ==
    JObj([has_mismatch |-> TRUE, expected_script |-> "arabic",
          detected_script |-> "latin", needs_retranscription |-> TRUE])

Members(n) ==
    {<<"text", JStr(t)>> : t \in Strings(RunChars, n)}
        \cup {<<"text", JNum(5)>>, <<"segments", JNum(1)>>,
              <<"script_issue", StaleIssue>>}

ObjectDocs(n, m) ==
    {[kind |-> "object", pairs |-> ps] :
        ps \in UNION {[1..k -> Members(n)] : k \in 0..m}}

InputDocs == ObjectDocs(MaxLen, MaxFields) \cup {Absent, Malformed, ArrayDoc}

ConcDocs == ObjectDocs(1, 1) \cup {Absent, ArrayDoc}

\* a document already at the output path before the call
OldDoc == [kind |-> "object", pairs |-> << <<"segments", JNum(2)>> >>]

Call(n, input, prior, prev) ==
    [n |-> n, input |-> input, prior |-> prior, prev_language |-> prev]

Idle(p) ==
    [pc |-> "idle", input_path |-> InFile(p), output_path |-> OutFile(p),
     expected_language |-> "en", wfault |-> FALSE,
     call |-> Call(0, Absent, Absent, "-")]

Started(p, out, lang, wf, input, prior) ==
    [pc |-> "start", input_path |-> InFile(p), output_path |-> out,
     expected_language |-> lang, wfault |-> wf,
     call |-> Call(1, input, IF out = InFile(p) THEN input ELSE prior, "-")]

Locals ==
    /\ data = [p \in Procs |-> NoData]
    /\ has_mismatch = [p \in Procs |-> FALSE]
    /\ detected_script = [p \in Procs |-> "unset"]
    /\ expected_script = [p \in Procs |-> "unset"]
    /\ exc = [p \in Procs |-> "none"]
    /\ status = [p \in Procs |-> -1]

Setup(inv, docs) ==
    /\ tables = [patterns |-> SCRIPT_PATTERNS, langmap |-> LANGUAGE_SCRIPT_MAP]
    /\ fs = [f \in Paths |-> docs[f]]
    /\ stderr = <<>>
    /\ pc = [p \in Procs |-> inv[p].pc]
    /\ input_path = [p \in Procs |-> inv[p].input_path]
    /\ output_path = [p \in Procs |-> inv[p].output_path]
    /\ expected_language = [p \in Procs |-> inv[p].expected_language]
    /\ wfault = [p \in Procs |-> inv[p].wfault]
    /\ call = [p \in Procs |-> inv[p].call]
    /\ Locals

\* one invocation, p1, from the command line
Init ==
    \E input \in InputDocs, prior \in {Absent, OldDoc},
       out \in {InFile("p1"), OutFile("p1")}, lang \in RunLangs,
       wf \in BOOLEAN :
        Setup([p \in Procs |->
                  IF p = "p1" THEN Started(p, out, lang, wf, input, prior)
                  ELSE Idle(p)],
              [f \in Paths |->
                  IF f = InFile("p1") THEN input
                  ELSE IF f = OutFile("p1") THEN prior ELSE Absent])

\* two invocations at once, each on its own input and output file
InitConc ==
    \E input \in [Procs -> ConcDocs], lang \in [Procs -> RunLangs],
       wf \in [Procs -> BOOLEAN] :
        Setup([p \in Procs |->
                  Started(p, OutFile(p), lang[p], wf[p], input[p], Absent)],
              [f \in Paths |->
                  IF f[2] = "in.json" THEN input[f[1]] ELSE Absent])

\* the classifier and the comparison applied to a text and a language code
FnDocs ==
    {[kind |-> "object", pairs |-> << <<"text", v>> >>] :
        v \in {JStr(t) : t \in Strings(FnChars, MaxFnLen)} \cup {JNum(5)}}
        \cup {Absent}

InitFn ==
    \E input \in FnDocs, lang \in FnLangs :
        Setup([p \in Procs |->
                  IF p = "p1"
                  THEN Started(p, OutFile(p), lang, FALSE, input, Absent)
                  ELSE Idle(p)],
              [f \in Paths |-> IF f = InFile("p1") THEN input ELSE Absent])

\* the caller runs the tool again on the output of a successful call
Rerun(p) ==
    /\ pc[p] = "done"
    /\ status[p] = 0
    /\ call[p].n < MaxRuns
    /\ \E lang \in RunLangs, wf \in BOOLEAN :
        /\ expected_language' = [expected_language EXCEPT ![p] = lang]
        /\ wfault' = [wfault EXCEPT ![p] = wf]
    /\ input_path' = [input_path EXCEPT ![p] = output_path[p]]
    /\ call' = [call EXCEPT ![p] =
                   Call(call[p].n + 1, fs[output_path[p]],
                        fs[output_path[p]], expected_language[p])]
    /\ pc' = [pc EXCEPT ![p] = "start"]
    /\ data' = [data EXCEPT ![p] = NoData]
    /\ has_mismatch' = [has_mismatch EXCEPT ![p] = FALSE]
    /\ detected_script' = [detected_script EXCEPT ![p] = "unset"]
    /\ expected_script' = [expected_script EXCEPT ![p] = "unset"]
    /\ status' = [status EXCEPT ![p] = -1]
    /\ UNCHANGED <<tables, fs, stderr, output_path, exc>>

Next ==
    \/ \E p \in Procs : ReadInput(p)
    \/ \E p \in Procs : Check(p)
    \/ \E p \in Procs : Emit(p)
    \/ \E p \in Procs : OpenOutput(p)
    \/ \E p \in Procs : Dump(p)
    \/ \E p \in Procs : Handler(p)
    \/ \E p \in Procs : Rerun(p)

NextConc ==
    \/ \E p \in Procs : ReadInput(p)
    \/ \E p \in Procs : Check(p)
    \/ \E p \in Procs : Emit(p)
    \/ \E p \in Procs : OpenOutput(p)
    \/ \E p \in Procs : Dump(p)
    \/ \E p \in Procs : Handler(p)

NextFn ==
    \/ \E p \in Procs : ReadInput(p)
    \/ \E p \in Procs : Check(p)
    \/ \E p \in Procs : Emit(p)

Spec == Init /\ [][Next]_vars

SpecConc == InitConc /\ [][NextConc]_vars

SpecFn == InitFn /\ [][NextFn]_vars

----------------------------------------------------------------------------
(* Vocabulary of the properties *)

Done(p) == pc[p] = "done"

Succeeded(p) == Done(p) /\ status[p] = 0

Failed(p) == Done(p) /\ status[p] = 1

\* the lines of invocation p on the diagnostic stream
LinesOf(p) == SelectSeq(stderr, LAMBDA l : l.p = p)

StatusTags == {"SUCCESS:", "WARNING: SCRIPT MISMATCH DETECTED!",
               "NEEDS_RETRANSCRIPTION"}

\* the record the call read
InputRecord(p) == json_load(call[p].input).pairs

\* the record now at the output path
OutputRecord(p) == json_load(fs[output_path[p]]).pairs

\* the report in the record at the output path
OutputIssue(p) == dict_get(OutputRecord(p), "script_issue", JNum(0)).r

\* the report in the local record
LocalIssue(p) == dict_get(data[p].pairs, "script_issue", JNum(0)).r

RegisteredOrder ==
    <<"arabic", "devanagari", "gujarati", "bengali", "tamil", "telugu",
      "kannada", "malayalam">>

Registered == {RegisteredOrder[i] : i \in 1..Len(RegisteredOrder)}

RangeOf(name) ==
    CHOOSE r \in {SCRIPT_PATTERNS[i] : i \in 1..Len(SCRIPT_PATTERNS)} :
        r.name = name

\* number of characters of text in the range registered under name
CountIn(name, text) ==
    Cardinality({i \in 1..Len(text) :
        RangeOf(name).lo <= text[i] /\ text[i] <= RangeOf(name).hi})

PosOf(name) == CHOOSE i \in 1..Len(RegisteredOrder) : RegisteredOrder[i] = name

\* the expected script of a language code, as the specification gives it
ExpectedFor(code) ==
    CASE code = "hi" -> "devanagari"
      [] code = "ur" -> "arabic"
      [] code = "gu" -> "gujarati"
      [] code = "bn" -> "bengali"
      [] code = "ta" -> "tamil"
      [] code = "te" -> "telugu"
      [] code = "kn" -> "kannada"
      [] code = "ml" -> "malayalam"
      [] OTHER -> "latin"

Classified(p) == detected_script[p] /= "unset"

ClassifiedText(p) == get_text(data[p].pairs).s

----------------------------------------------------------------------------
(* C1 *)

\* C1: a finished call has status 0 with the updated record at output_path
\* (whether or not a mismatch was found), or status 1 with the output
\* untouched or cut short and an ERROR: line as its last diagnostic; no
\* exception leaves process_transcription.
C1_StatusMatchesPersistence ==
    \A p \in Procs :
        /\ pc[p] /= "propagated"
        /\ Done(p) =>
            \/ /\ status[p] = 0
               /\ fs[output_path[p]] =
                      [kind |-> "object", pairs |-> data[p].pairs]
               /\ "script_issue" \in dict_keys(data[p].pairs)
               /\ LocalIssue(p).has_mismatch = has_mismatch[p]
            \/ /\ status[p] = 1
               /\ \/ fs[output_path[p]] = call[p].prior
                  \/ fs[output_path[p]].kind = "truncated"
               /\ LinesOf(p) /= <<>>
               /\ LinesOf(p)[Len(LinesOf(p))] = Line(p, "ERROR:", exc[p])

C1_Witness ==
    /\ Succeeded("p1") /\ has_mismatch["p1"]
    /\ fs[output_path["p1"]].kind = "object"

----------------------------------------------------------------------------
(* C2 *)

ErrorMarker(c) == c.kind = "object" /\ "error" \in dict_keys(c.pairs)

\* C2: after a failed call the output path is untouched (or absent) or holds
\* an error-marker record; never a truncated document.
C2_NoPartialOutput ==
    \A p \in Procs :
        Failed(p) =>
            \/ fs[output_path[p]] = call[p].prior
            \/ ErrorMarker(fs[output_path[p]])

----------------------------------------------------------------------------
(* C3 *)

\* C3: detect_script returns 'latin' when no character is in a registered
\* range; otherwise a registered script of maximal count, and among several
\* of maximal count the one declared first.
C3_FirstDeclaredMaximum ==
    \A p \in Procs :
        Classified(p) =>
            LET t == ClassifiedText(p)
                r == detected_script[p]
            IN  /\ r \in Registered \cup {"latin"}
                /\ (r = "latin") <=> (\A s \in Registered : CountIn(s, t) = 0)
                /\ r /= "latin" =>
                      \A s \in Registered :
                          /\ CountIn(s, t) <= CountIn(r, t)
                          /\ PosOf(s) < PosOf(r) =>
                                CountIn(s, t) < CountIn(r, t)

C3_Witness ==
    /\ Classified("p1")
    /\ detected_script["p1"] = "gujarati"
    /\ CountIn("gujarati", ClassifiedText("p1")) = 1
    /\ CountIn("bengali", ClassifiedText("p1")) = 1
    /\ ClassifiedText("p1")[1] = 2453

----------------------------------------------------------------------------
(* C4 *)

\* C4: the expected script is the mapped script for the 8 codes of the
\* table and 'latin' for every other code, the empty one included; the
\* lookup raises nothing.
C4_ExpectedScriptTotal ==
    \A p \in Procs :
        /\ Classified(p) =>
              has_mismatch[p] =
                  (detected_script[p] /= ExpectedFor(expected_language[p]))
        /\ expected_script[p] /= "unset" =>
              expected_script[p] = ExpectedFor(expected_language[p])
        /\ (pc[p] = "except" /\ data[p].kind = "dict") =>
              get_text(data[p].pairs).t /= "str"

C4_Witness ==
    /\ pc["p1"] = "emitted"
    /\ expected_language["p1"] = ""
    /\ detected_script["p1"] = "devanagari"
    /\ expected_script["p1"] = "latin"

----------------------------------------------------------------------------
(* C5 *)

NeedsRetry(r) ==
    "needs_retranscription" \in DOMAIN r /\ r.needs_retranscription

\* C5: in every report attached to a record, has_mismatch is
\* (detected /= expected) and needs_retranscription is true exactly when
\* has_mismatch is.
C5_RetryIffMismatch ==
    \A p \in Procs :
        (pc[p] \in {"emitted", "opened"} \/ Succeeded(p)) =>
            LET r == LocalIssue(p)
            IN  /\ r.has_mismatch =
                      (r.detected_script /= ExpectedFor(expected_language[p]))
                /\ NeedsRetry(r) <=> r.has_mismatch

C5_Witness ==
    /\ pc["p1"] = "emitted"
    /\ LocalIssue("p1").detected_script = "tamil"
    /\ expected_language["p1"] = "ml"
    /\ LocalIssue("p1").has_mismatch
    /\ NeedsRetry(LocalIssue("p1"))

----------------------------------------------------------------------------
(* C6 *)

\* C6: the report of a successful run carries both expected_script and
\* detected_script, whether or not the scripts match.
C6_BothNamesPresent ==
    \A p \in Procs :
        Succeeded(p) =>
            /\ "expected_script" \in DOMAIN OutputIssue(p)
            /\ "detected_script" \in DOMAIN OutputIssue(p)

----------------------------------------------------------------------------
(* C7 *)

\* C7: a successful run keeps every field of the input record other than
\* script_issue, with its value, and adds or changes script_issue only.
C7_MergeNotReplace ==
    \A p \in Procs :
        Succeeded(p) =>
            /\ fs[output_path[p]].kind = "object"
            /\ dict_keys(OutputRecord(p)) =
                   dict_keys(InputRecord(p)) \cup {"script_issue"}
            /\ \A k \in dict_keys(InputRecord(p)) \ {"script_issue"} :
                   dict_get(OutputRecord(p), k, JNum(0)) =
                       dict_get(InputRecord(p), k, JNum(0))

C7_Witness ==
    /\ Succeeded("p1")
    /\ dict_keys(InputRecord("p1")) = {"segments", "script_issue"}
    /\ dict_get(OutputRecord("p1"), "script_issue", JNum(0)) /= StaleIssue

----------------------------------------------------------------------------
(* C8 *)

\* C8: a successful run on the output of an earlier successful run, with
\* the same language code, writes the script_issue of the earlier run, and
\* the whole record it writes equals the earlier output.
C8_Idempotent ==
    \A p \in Procs :
        (Succeeded(p) /\ call[p].n >= 2
            /\ expected_language[p] = call[p].prev_language) =>
            /\ OutputIssue(p) =
                   dict_get(InputRecord(p), "script_issue", JNum(0)).r
            /\ fs[output_path[p]] = call[p].input

C8_Witness ==
    /\ Succeeded("p1")
    /\ call["p1"].n = 2
    /\ expected_language["p1"] = call["p1"].prev_language
    /\ ~ has_mismatch["p1"]
    /\ detected_script["p1"] = "devanagari"

----------------------------------------------------------------------------
(* C9 *)

\* process_transcription run from start to end with nothing in between
run_alone(input, prior, lang, wf) ==
    LET failed == [status |-> 1, output |-> prior]
    IN  IF input.kind \in {"absent", "malformed", "truncated"} THEN failed
        ELSE IF json_load(input).kind /= "dict" THEN failed
        ELSE IF get_text(json_load(input).pairs).t /= "str" THEN failed
        ELSE IF wf THEN failed
        ELSE LET d == json_load(input).pairs
                 m == check_script_mismatch(
                          [patterns |-> SCRIPT_PATTERNS,
                           langmap |-> LANGUAGE_SCRIPT_MAP],
                          get_text(d).s, lang)
                 upd == attach_issue(d,
                            script_issue(m.mismatch,
                                lookup_expected(LANGUAGE_SCRIPT_MAP, lang),
                                m.detected))
             IN  [status |-> IF unencodable(upd) = {} THEN 0 ELSE 1,
                  output |-> json_dump(upd)]

Alone(p) ==
    run_alone(call[p].input, call[p].prior, expected_language[p], wfault[p])

\* C9: under every interleaving of two invocations on different files, the
\* status and the persisted record of each are those of the same call run
\* alone, and the two tables keep their initial value.
C9_NoInterference ==
    /\ tables = [patterns |-> SCRIPT_PATTERNS,
                 langmap |-> LANGUAGE_SCRIPT_MAP]
    /\ \A p \in Procs :
          Done(p) =>
              /\ status[p] = Alone(p).status
              /\ fs[output_path[p]] = Alone(p).output

C9_Witness ==
    /\ Succeeded("p1") /\ Failed("p2")
    /\ has_mismatch["p2"] /\ ~ has_mismatch["p1"]
    /\ exc["p2"] = "UnicodeEncodeError"
    /\ stderr[1].p = "p2"
    /\ stderr[Len(stderr)].p = "p2"
    /\ \E i \in 1..Len(stderr) : stderr[i].p = "p1"

----------------------------------------------------------------------------
(* C10 *)

\* C10: the status line (SUCCESS: or the mismatch lines) is emitted only
\* after the record is persisted, so no call that emitted one ends with
\* ERROR: and status 1, and NEEDS_RETRANSCRIPTION is emitted exactly by the
\* calls whose persisted report has has_mismatch true.
C10_StatusLineAfterPersist ==
    \A p \in Procs :
        call[p].n = 1 =>
            /\ (\E i \in 1..Len(LinesOf(p)) :
                    LinesOf(p)[i].tag \in StatusTags)
                  => fs[output_path[p]] =
                         [kind |-> "object", pairs |-> data[p].pairs]
            /\ Failed(p) =>
                  \A i \in 1..Len(LinesOf(p)) :
                      LinesOf(p)[i].tag \notin StatusTags
            /\ Done(p) =>
                  ((\E i \in 1..Len(LinesOf(p)) :
                        LinesOf(p)[i].tag = "NEEDS_RETRANSCRIPTION")
                    <=> (status[p] = 0 /\ OutputIssue(p).has_mismatch))

====
